---- MODULE Spec2Model ----
(***************************************************************************)
(* Model of alias_runner.py: the include-graph traversal and merge         *)
(* (collect_aliases / parse_aliases_from_file / expand_path), the search   *)
(* index (tokens / match_score / filter_aliases), the annotation store     *)
(* (load_notes / save_notes) and the session state (main, AppState and the *)
(* key bindings that mutate it).                                           *)
(*                                                                         *)
(* Strings are sequences of one-character strings.  A path is a record     *)
(* [kind, f, sp]: the file-system object it names (kind, f) and the        *)
(* spelling sp of the path, "canon" for the resolved spelling and "alt"    *)
(* for any other spelling of the same object (a symlinked prefix, a        *)
(* "dir/../dir" segment, a path relative to the working directory).        *)
(* pathlib compares paths by spelling, so two paths are equal exactly when *)
(* the records are equal.                                                  *)
(***************************************************************************)
EXTENDS Integers, Sequences, FiniteSets, TLC

\* ---------------------------------------------------------------- bounds
NFiles == 4
MaxDirectives == 2
MaxFailures == 1

\* ------------------------------------------------------------- strings
Chars == {" ", "a", "b", "c", "e", "g", "n", "o", "t", "x", "y", "z", "A", "N", "X",
          "|", "#", ":"}

Code(c) ==
  CASE c = " " -> 32
    [] c = "#" -> 35
    [] c = ":" -> 58
    [] c = "A" -> 65
    [] c = "N" -> 78
    [] c = "X" -> 88
    [] c = "a" -> 97
    [] c = "b" -> 98
    [] c = "c" -> 99
    [] c = "e" -> 101
    [] c = "g" -> 103
    [] c = "n" -> 110
    [] c = "o" -> 111
    [] c = "t" -> 116
    [] c = "x" -> 120
    [] c = "y" -> 121
    [] c = "z" -> 122
    [] c = "|" -> 124

LowerChar(c) ==
  CASE c = "A" -> "a"
    [] c = "N" -> "n"
    [] c = "X" -> "x"
    [] OTHER -> c

Lower(s) == [i \in 1..Len(s) |-> LowerChar(s[i])]

\* str < str, by code point, as Python compares the sort keys
RECURSIVE StrLess(_, _)
StrLess(s, t) ==
  IF t = <<>> THEN FALSE
  ELSE IF s = <<>> THEN TRUE
  ELSE IF Code(Head(s)) < Code(Head(t)) THEN TRUE
  ELSE IF Code(Head(s)) > Code(Head(t)) THEN FALSE
  ELSE StrLess(Tail(s), Tail(t))

StrLeq(s, t) == s = t \/ StrLess(s, t)

Range(q) == {q[i] : i \in DOMAIN q}

\* t in hay
Contains(hay, t) ==
  \E i \in 1..(Len(hay) - Len(t) + 1) : SubSeq(hay, i, i + Len(t) - 1) = t

\* ---------------------------------------------------------- file system
Files == 1..NFiles
RootFile == 1
Spellings == {"canon", "alt"}

FilePath(f, sp) == [kind |-> "file", f |-> f, sp |-> sp]
DirPath(sp) == [kind |-> "dir", f |-> 0, sp |-> sp]
MissingPath(sp) == [kind |-> "missing", f |-> 0, sp |-> sp]

\* two more regular files of the fixture: one whose read raises OSError
\* (no read permission) and one whose bytes are not all UTF-8
UnreadableFile == NFiles + 1
BinaryFile == NFiles + 2

\* the files below the one sub-directory of the fixture (all but the root)
DirFiles == Files \ {RootFile}
\* the files whose name ends in .zsh or .sh
ShellSuffix(f) == f % 2 = 0

RECURSIVE SortedSeq(_)
SortedSeq(S) ==
  IF S = {} THEN <<>>
  ELSE LET m == CHOOSE x \in S : \A y \in S : x <= y
       IN <<m>> \o SortedSeq(S \ {m})

\* An include directive as written: a relative raw path to a file, an
\* absolute one in another spelling than the resolved one (in the resolved
\* spelling it names the path the relative one does), a relative path to a
\* directory or to nothing, a relative glob pattern, a relative path to
\* the unreadable or to the undecodable file, or a relative path whose
\* resolve() raises ("unresolvable": a symbolic link to itself, which raises
\* RuntimeError before Python 3.13, or a name with a NUL character, which
\* raises ValueError).
Directives ==
  {[form |-> "path", abs |-> FALSE, kind |-> "file", f |-> f, sp |-> "canon"] : f \in Files}
  \cup {[form |-> "path", abs |-> TRUE, kind |-> "file", f |-> f, sp |-> "alt"] :
           f \in Files}
  \cup {[form |-> "path", abs |-> FALSE, kind |-> "dir", f |-> 0, sp |-> "canon"],
        [form |-> "path", abs |-> FALSE, kind |-> "missing", f |-> 0, sp |-> "canon"],
        [form |-> "glob", abs |-> FALSE, kind |-> "file", f |-> 0, sp |-> "canon"],
        [form |-> "path", abs |-> FALSE, kind |-> "unreadable", f |-> UnreadableFile,
         sp |-> "canon"],
        [form |-> "path", abs |-> FALSE, kind |-> "undecodable", f |-> BinaryFile,
         sp |-> "canon"],
        [form |-> "path", abs |-> FALSE, kind |-> "unresolvable", f |-> 0, sp |-> "canon"]}

Chr(f) == IF f = 1 THEN "a" ELSE IF f = 2 THEN "b" ELSE IF f = 3 THEN "c" ELSE "z"

\* The lines of file f before its include lines.  A line is what the two
\* regular expressions make of it: "source" (SOURCE_RE matches), "alias"
\* (ALIAS_RE matches, with its groups) or "text" (neither matches), a text
\* line keeping its characters.
AliasLines(f) ==
  IF f = RootFile
  THEN << [kind |-> "alias", name |-> <<"x">>, body |-> <<"a">>, trailing |-> <<>>],
          [kind |-> "text", raw |-> <<"#", " ", "n", "o", "t", "e", ":", " ", "n">>],
          [kind |-> "text", raw |-> <<>>],
          [kind |-> "alias", name |-> <<"g">>, body |-> <<"g", " ", "a">>, trailing |-> <<"c">>] >>
  ELSE IF ShellSuffix(f)
  THEN << [kind |-> "alias", name |-> <<"x">>, body |-> <<Chr(f)>>, trailing |-> <<"n", Chr(f)>>],
          [kind |-> "alias", name |-> <<"y">>, body |-> <<"y", Chr(f)>>, trailing |-> <<>>] >>
  ELSE << [kind |-> "alias", name |-> <<"X">>, body |-> <<Chr(f)>>, trailing |-> <<>>],
          [kind |-> "alias", name |-> <<"x">>, body |-> <<Chr(f)>>, trailing |-> <<>>] >>

SourceLines(ds) == [i \in 1..Len(ds) |-> [kind |-> "source", d |-> ds[i]]]

\* the text of file f when its include directives are ds
FileLines(ds, f) == AliasLines(f) \o SourceLines(ds)

\* the text of the undecodable file as read_text(errors="ignore") returns it:
\* the bytes that are not UTF-8 are dropped and the rest of the line stays
BinaryLines ==
  << [kind |-> "alias", name |-> <<"z">>, body |-> <<"b">>, trailing |-> <<"n">>] >>

\* ------------------------------------------------------ include graphs
\* A graph is written as a list of (owner file, directive) pairs, owners in
\* ascending order; the directives of one file keep their written order.
IncludeLists ==
  UNION {{l \in [1..k -> Files \X Directives] :
            \A i \in 1..(k - 1) : l[i][1] <= l[i + 1][1]} : k \in 0..MaxDirectives}

RECURSIVE DirectivesOf(_, _)
DirectivesOf(l, f) ==
  IF l = <<>> THEN <<>>
  ELSE (IF Head(l)[1] = f THEN <<Head(l)[2]>> ELSE <<>>) \o DirectivesOf(Tail(l), f)

GraphOf(l) == [f \in Files |-> DirectivesOf(l, f)]

\* ---------------------------------------------------------- expand_path
expand_path(d, base) ==
  IF ~d.abs
  THEN [kind |-> d.kind, f |-> d.f, sp |-> "canon"]
  ELSE [kind |-> d.kind, f |-> d.f, sp |-> d.sp]

Exists(p) == p.kind \in {"file", "dir", "unreadable", "undecodable"}
IsFile(p) == p.kind \in {"file", "unreadable", "undecodable"}
\* path.read_text(...) raises
ReadRaises(p) == p.kind = "unreadable"
\* (base_dir / p).resolve() raises
ResolveRaises(d) == ~d.abs /\ d.kind = "unresolvable"
IsDir(p) == p.kind = "dir"

\* ------------------------------------------------- parse_aliases_from_file
RECURSIVE Strip(_)
Strip(s) ==
  IF s = <<>> THEN <<>>
  ELSE IF Head(s) = " " THEN Strip(Tail(s))
  ELSE IF s[Len(s)] = " " THEN Strip(SubSeq(s, 1, Len(s) - 1))
  ELSE s

\* the paths one 'source' line contributes, for the including file at base
IncludeTargets(d, base) ==
  IF d.form = "glob"
  THEN LET sp == IF d.abs THEN d.sp ELSE base.sp
       IN [i \in 1..Len(SortedSeq(DirFiles)) |-> FilePath(SortedSeq(DirFiles)[i], sp)]
  ELSE IF Exists(expand_path(d, base)) THEN <<expand_path(d, base)>> ELSE <<>>

AliasNote(buf, trailing) ==
  LET note == Strip(trailing)
  IN IF buf # <<>>
     THEN buf \o (IF note # <<>> THEN <<" ", "|", " ">> \o note ELSE <<>>)
     ELSE note

\* s.startswith(p)
StartsWith(s, p) == Len(s) >= Len(p) /\ SubSeq(s, 1, Len(p)) = p

\* s.lstrip("#")
RECURSIVE LStripHash(_)
LStripHash(s) ==
  IF s # <<>> /\ Head(s) = "#" THEN LStripHash(Tail(s)) ELSE s

\* line 100, on stripped = line.strip()
IsNoteLine(stripped) ==
  /\ StartsWith(stripped, <<"#">>)
  /\ \/ Contains(Lower(stripped), <<"n", "o", "t", "e", ":">>)
     \/ StartsWith(stripped, <<"#", ":">>)

\* lines 101-102: stripped.lstrip("#").strip(), then a leading "note:" of
\* any case and the blanks after it removed
NoteText(stripped) ==
  LET t == Strip(LStripHash(stripped))
  IN IF StartsWith(Lower(t), <<"n", "o", "t", "e", ":">>)
     THEN Strip(SubSeq(t, 6, Len(t)))
     ELSE t

\* one iteration of the loop of line 75 in which a line that is neither an
\* include nor an alias empties the pending note
ParseLineResets(line, lineno, st, path) ==
  IF line.kind = "source"
  THEN [st EXCEPT !.sources = st.sources \o IncludeTargets(line.d, path)]
  ELSE IF line.kind = "text"
  THEN [st EXCEPT !.buf = IF IsNoteLine(Strip(line.raw))
                          THEN NoteText(Strip(line.raw)) ELSE <<>>]
  ELSE [buf |-> <<>>,
        aliases |-> Append(st.aliases, [name |-> line.name, body |-> line.body,
                                        note |-> AliasNote(st.buf, line.trailing),
                                        file |-> path, line |-> lineno]),
        sources |-> st.sources]

\* one iteration of the loop of line 75 on st = [buf, aliases, sources],
\* buf being prev_note_buffer with None as the empty string
ParseLine(line, lineno, st, path) ==
  IF line.kind = "source"
  THEN [st EXCEPT !.sources = st.sources \o IncludeTargets(line.d, path)]
  ELSE IF line.kind = "text"
  THEN (IF IsNoteLine(Strip(line.raw))
        THEN [st EXCEPT !.buf = NoteText(Strip(line.raw))]
        ELSE st)
  ELSE [buf |-> <<>>,
        aliases |-> Append(st.aliases, [name |-> line.name, body |-> line.body,
                                        note |-> AliasNote(st.buf, line.trailing),
                                        file |-> path, line |-> lineno]),
        sources |-> st.sources]

RECURSIVE ParseLines(_, _, _, _, _, _)
ParseLines(lines, lineno, buf, aliases, sources, path) ==
  IF lineno > Len(lines) THEN <<aliases, sources>>
  ELSE LET st == ParseLine(lines[lineno], lineno,
                           [buf |-> buf, aliases |-> aliases, sources |-> sources], path)
       IN ParseLines(lines, lineno + 1, st.buf, st.aliases, st.sources, path)

\* the lines read_text returns for a readable file
ReadLines(g, path) ==
  IF path.kind = "undecodable" THEN BinaryLines ELSE FileLines(g[path.f], path.f)

\* line 81 is outside the try of lines 82-96: an include line whose target
\* cannot be resolved raises out of parse_aliases_from_file
ParseRaises(g, path) ==
  /\ Exists(path) /\ IsFile(path) /\ ~ReadRaises(path)
  /\ \E i \in DOMAIN ReadLines(g, path) :
       /\ ReadLines(g, path)[i].kind = "source"
       /\ ResolveRaises(ReadLines(g, path)[i].d)

\* the value returned when nothing raises
parse_aliases_from_file(g, path) ==
  IF ~Exists(path) \/ ~IsFile(path) THEN <<(<<>>), (<<>>)>>
  ELSE IF ReadRaises(path) THEN <<(<<>>), (<<>>)>>
  ELSE ParseLines(ReadLines(g, path), 1, <<>>, <<>>, <<>>, path)

\* --------------------------------------------------------- collect_aliases
\* merged is an insertion-ordered dict keyed by name: a sequence of records
\* with pairwise distinct names.
HasKey(m, k) == \E i \in 1..Len(m) : m[i].name = k
KeyIndex(m, k) == CHOOSE i \in 1..Len(m) : m[i].name = k
DictGet(m, k) == m[KeyIndex(m, k)]

\* the first definition of a name is kept
DictSetKeepFirst(m, a) ==
  IF HasKey(m, a.name) THEN m ELSE Append(m, a)

\* merged[a["name"]] = a
DictSet(m, a) ==
  IF HasKey(m, a.name) THEN [m EXCEPT ![KeyIndex(m, a.name)] = a] ELSE Append(m, a)

RECURSIVE MergeList(_, _)
MergeList(m, a_list) ==
  IF a_list = <<>> THEN m ELSE MergeList(DictSet(m, Head(a_list)), Tail(a_list))

\* what one element of srcs appends to the queue
ExpandSource(s) ==
  IF IsDir(s)
  THEN LET fsq == SortedSeq({f \in DirFiles : ShellSuffix(f)})
       IN [i \in 1..Len(fsq) |-> FilePath(fsq[i], s.sp)]
  ELSE IF Exists(s) THEN <<s>> ELSE <<>>

RECURSIVE ExpandSources(_)
ExpandSources(srcs) ==
  IF srcs = <<>> THEN <<>> ELSE ExpandSource(Head(srcs)) \o ExpandSources(Tail(srcs))

\* cur = queue.pop(): the newest entry first
PopQueueLast(q) == <<q[Len(q)], SubSeq(q, 1, Len(q) - 1)>>

\* cur = queue.pop(0)
PopQueue(q) == <<Head(q), Tail(q)>>
\* queue.append(...) for every expanded source, in order
PushQueue(q, ps) == q \o ps

\* one iteration of the while loop on the state st = [seen, queue, merged]
CollectIter(g, st) ==
  LET cur == PopQueue(st.queue)[1]
      rest == PopQueue(st.queue)[2]
  IN IF cur \in st.seen
     THEN [st EXCEPT !.queue = rest]
     ELSE LET pr == parse_aliases_from_file(g, cur)
          IN [seen |-> st.seen \cup {cur},
              queue |-> PushQueue(rest, ExpandSources(pr[2])),
              merged |-> MergeList(st.merged, pr[1])]

\* sorted(..., key=lambda x: x["name"].lower()): stable
RECURSIVE InsertByName(_, _)
InsertByName(sorted, a) ==
  IF sorted = <<>> THEN <<a>>
  ELSE IF StrLess(Lower(a.name), Lower(Head(sorted).name))
       THEN <<a>> \o sorted
       ELSE <<Head(sorted)>> \o InsertByName(Tail(sorted), a)

RECURSIVE SortByName(_)
SortByName(m) ==
  IF m = <<>> THEN <<>>
  ELSE InsertByName(SortByName(SubSeq(m, 1, Len(m) - 1)), m[Len(m)])

RECURSIVE CollectLoop(_, _)
CollectLoop(g, st) ==
  IF st.queue = <<>> THEN st ELSE CollectLoop(g, CollectIter(g, st))

collect_aliases(g, root_rc) ==
  SortByName(CollectLoop(g, [seen |-> {}, queue |-> <<root_rc>>, merged |-> <<>>]).merged)

\* ------------------------------------------------- matching / filtering
\* s.lower().split(): the maximal runs of non-blank characters
RECURSIVE SplitWords(_, _)
SplitWords(s, cur) ==
  IF s = <<>> THEN (IF cur = <<>> THEN <<>> ELSE <<cur>>)
  ELSE IF Head(s) = " "
       THEN (IF cur = <<>> THEN <<>> ELSE <<cur>>) \o SplitWords(Tail(s), <<>>)
       ELSE SplitWords(Tail(s), Append(cur, Head(s)))

tokens(s) == SplitWords(Lower(s), <<>>)

Haystack(alias) == Lower(alias.name \o <<" ">> \o alias.body \o <<" ">> \o alias.note)

match_score(alias, needle) ==
  IF Strip(needle) = <<>> THEN 1
  ELSE Cardinality({i \in DOMAIN tokens(needle) : Contains(Haystack(alias), tokens(needle)[i])})

\* the sort key (-score, name) without lower-casing the name
KeyLessCaseSensitive(x, y) ==
  \/ x.s > y.s
  \/ x.s = y.s /\ StrLess(x.a.name, y.a.name)

\* (-x[0], x[1]["name"].lower()) < (-y[0], y[1]["name"].lower())
KeyLess(x, y) ==
  \/ x.s > y.s
  \/ x.s = y.s /\ StrLess(Lower(x.a.name), Lower(y.a.name))

\* list.sort is stable: x goes before the first entry with a greater key
RECURSIVE InsertScored(_, _)
InsertScored(sorted, x) ==
  IF sorted = <<>> THEN <<x>>
  ELSE IF KeyLess(x, Head(sorted))
       THEN <<x>> \o sorted
       ELSE <<Head(sorted)>> \o InsertScored(Tail(sorted), x)

RECURSIVE SortScored(_)
SortScored(scored) ==
  IF scored = <<>> THEN <<>>
  ELSE InsertScored(SortScored(SubSeq(scored, 1, Len(scored) - 1)), scored[Len(scored)])

Scored(items, needle) ==
  [i \in DOMAIN items |-> [s |-> match_score(items[i], needle), a |-> items[i]]]

\* keeps only the records that match at least two tokens
filter_aliases_two(items, needle) ==
  LET kept == SelectSeq(SortScored(Scored(items, needle)),
                        LAMBDA x : x.s > 1 \/ Strip(needle) = <<>>)
  IN [i \in DOMAIN kept |-> kept[i].a]

filter_aliases(items, needle) ==
  LET kept == SelectSeq(SortScored(Scored(items, needle)),
                        LAMBDA x : x.s > 0 \/ Strip(needle) = <<>>)
  IN [i \in DOMAIN kept |-> kept[i].a]

\* --------------------------------------------------- annotation store
\* A store value in memory is what json.loads returned: a dict (a function
\* from names to notes) or a list of strings.  A store file is absent, not
\* JSON ("garbage", or "partial": a text that was not written to its end),
\* or JSON text: an object, the set of its members, or an array.
EmptyDict == [kind |-> "dict", d |-> <<>>, l |-> <<>>]
AbsentFile == [kind |-> "absent", shape |-> "none", members |-> {}, elems |-> <<>>]
GarbageFile == [kind |-> "garbage", shape |-> "none", members |-> {}, elems |-> <<>>]

\* json.dumps(notes, indent=2, ensure_ascii=False)
json_dumps(notes) ==
  IF notes.kind = "dict"
  THEN [kind |-> "json", shape |-> "object",
        members |-> {[name |-> k, note |-> notes.d[k]] : k \in DOMAIN notes.d},
        elems |-> <<>>]
  ELSE [kind |-> "json", shape |-> "array", members |-> {}, elems |-> notes.l]

\* json.loads(text)
json_loads(file) ==
  IF file.shape = "object"
  THEN [kind |-> "dict",
        d |-> [k \in {m.name : m \in file.members} |->
                 (CHOOSE m \in file.members : m.name = k).note],
        l |-> <<>>]
  ELSE [kind |-> "list", d |-> <<>>, l |-> file.elems]

load_notes(file) ==
  IF file.kind = "absent" THEN EmptyDict
  ELSE IF file.kind # "json" THEN EmptyDict
  ELSE json_loads(file)

\* a["name"] in self.notes
NotesHas(notes, name) ==
  IF notes.kind = "dict" THEN name \in DOMAIN notes.d ELSE name \in Range(notes.l)

\* self.notes[a["name"]] raises TypeError on a list
NotesGetRaises(notes) == notes.kind # "dict"
NotesGet(notes, name) == notes.d[name]

\* the overlay loop of __init__ and reload stops at the first raise
OverlayRaises(aliases, notes) ==
  \E i \in DOMAIN aliases : NotesHas(notes, aliases[i].name) /\ NotesGetRaises(notes)

\* the overlay loop that leaves every parsed note in place
OverlayNone(aliases, notes) == aliases

Overlay(aliases, notes) ==
  [i \in DOMAIN aliases |->
     IF NotesHas(notes, aliases[i].name)
     THEN [aliases[i] EXCEPT !.note = NotesGet(notes, aliases[i].name)]
     ELSE aliases[i]]

\* notes[name] = v
NotesSet(d, name, v) == [k \in DOMAIN d \cup {name} |-> IF k = name THEN v ELSE d[k]]
\* notes.pop(name, None)
NotesPop(d, name) == [k \in DOMAIN d \ {name} |-> d[k]]

\* the store keeps the text as typed
EditNotesRaw(notes, name, new_note) ==
  IF Strip(new_note) # <<>>
  THEN [notes EXCEPT !.d = NotesSet(notes.d, name, new_note)]
  ELSE [notes EXCEPT !.d = NotesPop(notes.d, name)]

\* lines 404-407; both branches raise TypeError on a list
EditNotes(notes, name, new_note) ==
  IF Strip(new_note) # <<>>
  THEN [notes EXCEPT !.d = NotesSet(notes.d, name, Strip(new_note))]
  ELSE [notes EXCEPT !.d = NotesPop(notes.d, name)]

\* ------------------------------------------------------------ save_notes
\* the two paths of save_notes, as (stem, suffix)
NOTES_PATH == [stem |-> ".alias_runner_notes", suffix |-> ".json"]

\* a temporary path that is the store path itself
with_suffix_same(p, suffix) == p

\* p.with_suffix(suffix)
with_suffix(p, suffix) == [p EXCEPT !.suffix = suffix]

TmpPath == with_suffix(NOTES_PATH, ".tmp")

\* the members of a JSON object in the order they are written
RECURSIVE MemberSeq(_)
MemberSeq(S) ==
  IF S = {} THEN <<>>
  ELSE LET m == CHOOSE x \in S : \A y \in S : StrLeq(x.name, y.name)
       IN <<m>> \o MemberSeq(S \ {m})

\* the number of pieces write_text hands to the file before it closes it
ChunkCount(text) == Cardinality(text.members)

\* the file after the first k pieces of text: not JSON yet
PartialText(text, k) ==
  [kind |-> "partial", shape |-> text.shape,
   members |-> {MemberSeq(text.members)[i] : i \in 1..k},
   elems |-> <<>>]

\* path.write_text(text) on the disk [store, tmp], stopped after k pieces or
\* run to its end
WriteText(disk, path, content) ==
  IF path = NOTES_PATH THEN [disk EXCEPT !.store = content]
  ELSE [disk EXCEPT !.tmp = content]

ReadFile(disk, path) == IF path = NOTES_PATH THEN disk.store ELSE disk.tmp

\* src.replace(dst): one atomic rename
ReplaceFile(disk, src, dst) ==
  IF src = dst THEN disk
  ELSE WriteText(WriteText(disk, dst, ReadFile(disk, src)), src, AbsentFile)

\* save_notes run to its end
save_notes(notes, disk) ==
  ReplaceFile(WriteText(disk, TmpPath, json_dumps(notes)), TmpPath, NOTES_PATH)

\* A temporary file that a save_notes that raised has written: cut short (a
\* write failed) or whole (the rename failed).  Nothing ever reads that file
\* back, and SpecSave follows its text step by step; where save_notes is one
\* step of a handler, LeftoverFile stands for any such text.
LeftoverFile == [kind |-> "leftover", shape |-> "none", members |-> {}, elems |-> <<>>]

\* the disks a save_notes that raised may leave: as before (the open
\* failed), or with a temporary file written
FailedSaves(disk) == {disk, WriteText(disk, TmpPath, LeftoverFile)}

\* ------------------------------------------------------------- AppState
PageStep == 10
NoSelection == 0 - 1

Min(a, b) == IF a < b THEN a ELSE b
Max(a, b) == IF a > b THEN a ELSE b

\* apply_filter that always puts the cursor on the first row
apply_filter_first(aliases, q) ==
  [query |-> q,
   filtered |-> filter_aliases(aliases, q),
   cursor |-> 0,
   status |-> "Filtered"]

\* apply_filter: the new query, filtered list, cursor and status
apply_filter(aliases, q) ==
  LET kept == filter_aliases(aliases, q)
  IN [query |-> q,
      filtered |-> kept,
      cursor |-> IF kept # <<>> THEN 0 ELSE NoSelection,
      status |-> "Filtered"]

\* line 356
page_up(cursor) == Max(0, cursor - PageStep)

\* a page down that does not stop at the last row
page_down_unclamped(cursor, n) == cursor + PageStep

\* line 360, n = len(state.filtered)
page_down(cursor, n) == Min(Max(0, n - 1), cursor + PageStep)

\* current(): the selected record, as a sequence of at most one record
current(filtered, cursor) ==
  IF 0 <= cursor /\ cursor < Len(filtered) THEN <<filtered[cursor + 1]>> ELSE <<>>

\* ------------------------------------------------------------------ state
VARIABLES
  fs,        \* the include directives of every file
  rc_path,   \* the root path as given to collect_aliases
  seen, queue, merged,   \* locals of collect_aliases
  result,    \* its return value
  wpc,       \* "loop" while in the while loop, "done" after the return,
             \* "raised" when an exception left collect_aliases
  parsed,    \* history: every record parsed, in parse order
  order,     \* history: every path handed to parse_aliases_from_file
  enq,       \* history: every path put on the queue, with the file that did
  items, needle,   \* arguments of match_score / filter_aliases
  scores,    \* match_score of every item
  found,     \* the return value of filter_aliases
  spc,       \* "input", then "scored", then "filtered"
  notesFile, \* the store file at NOTES_PATH
  tmpFile,   \* the file at NOTES_PATH.with_suffix(".tmp")
  notes, aliases, query, filtered, cursor, status,   \* fields of AppState
  apc,       \* "start", "running", "crashed" (uncaught exception), "quit",
             \* "exit1" (the message of line 456 printed, SystemExit(1) raised)
  lastOp,    \* history: what ran last: "construct", "filter" (apply_filter
             \* alone), "reload", "cancel" (a cancelled note edit), "failed"
             \* (a handler that raised), "raised" (an exception that ended
             \* the process) or "other"
  lastEdit,  \* history: the last note edit that was saved, if any
  cleared,   \* history: the saved text that the last saved blank edit removed
  failures,  \* history: how many handlers have raised so far
  saving,    \* the argument of save_notes
  oldFile,   \* history: the store file when save_notes was called
  written,   \* how many pieces of the text write_text has written
  svpc,      \* "call", "writing", "written", "done"; "raised" (OSError) or
             \* "killed" (the process ended) from any of the first three
  plines,    \* the lines of the file parse_aliases_from_file reads
  plineno,   \* the number of the line its loop handled last
  prev_note_buffer,   \* its pending note, None as the empty string
  paliases, psources, \* its two result lists
  ppc        \* "loop" while in the loop of line 75, "done" after the return

svars == <<items, needle, scores, found, spc>>
dvars == <<saving, oldFile, written, svpc>>
lvars == <<plines, plineno, prev_note_buffer, paliases, psources, ppc>>
avars == <<notesFile, tmpFile, notes, aliases, query, filtered, cursor, status,
           apc, lastOp, lastEdit, cleared, failures>>
wvars == <<fs, rc_path, seen, queue, merged, result, wpc, parsed, order, enq>>

StartEntry == [kind |-> "start", f |-> 0, sp |-> "canon"]

WalkIdle ==
  /\ fs = GraphOf(<<>>)
  /\ rc_path = FilePath(RootFile, "canon")
  /\ seen = {} /\ queue = <<>> /\ merged = <<>> /\ result = <<>>
  /\ wpc = "idle"
  /\ parsed = <<>> /\ order = <<>> /\ enq = <<>>

SearchIdle ==
  /\ items = <<>> /\ needle = <<>> /\ scores = <<>> /\ found = <<>>
  /\ spc = "idle"

NoEdit == [done |-> FALSE, name |-> <<>>, text |-> <<>>]

LineIdle ==
  /\ plines = <<>> /\ plineno = 0 /\ prev_note_buffer = <<>>
  /\ paliases = <<>> /\ psources = <<>> /\ ppc = "idle"

SaveIdle ==
  /\ saving = EmptyDict /\ oldFile = AbsentFile /\ written = 0 /\ svpc = "idle"

AppIdle ==
  /\ notesFile = AbsentFile /\ tmpFile = AbsentFile
  /\ notes = EmptyDict /\ aliases = <<>> /\ query = <<>> /\ filtered = <<>>
  /\ cursor = 0 /\ status = "" /\ apc = "idle" /\ lastOp = "none"
  /\ lastEdit = NoEdit /\ cleared = NoEdit /\ failures = 0

WalkInit ==
  /\ SearchIdle
  /\ SaveIdle
  /\ LineIdle
  /\ AppIdle
  /\ \E l \in IncludeLists : fs = GraphOf(l)
  /\ \E sp \in Spellings : rc_path = FilePath(RootFile, sp)
  /\ seen = {}
  /\ queue = <<rc_path>>
  /\ merged = <<>>
  /\ result = <<>>
  /\ wpc = "loop"
  /\ parsed = <<>>
  /\ order = <<>>
  /\ enq = <<[by |-> StartEntry, p |-> rc_path]>>

WalkState == [seen |-> seen, queue |-> queue, merged |-> merged]

\* lines 126-128: the dequeued path was visited already
WalkSkip ==
  /\ wpc = "loop"
  /\ queue # <<>>
  /\ PopQueue(queue)[1] \in seen
  /\ \E st \in {CollectIter(fs, WalkState)} :
        /\ seen' = st.seen
        /\ queue' = st.queue
        /\ merged' = st.merged
  /\ UNCHANGED <<fs, rc_path, result, wpc, parsed, order, enq, svars, avars, dvars, lvars>>

\* lines 126-142: the dequeued path is parsed, merged and its includes queued
WalkParse ==
  /\ wpc = "loop"
  /\ queue # <<>>
  /\ PopQueue(queue)[1] \notin seen
  /\ ~ParseRaises(fs, PopQueue(queue)[1])
  /\ \E st \in {CollectIter(fs, WalkState)}, cur \in {PopQueue(queue)[1]} :
       \E added \in {SubSeq(st.queue, Len(queue), Len(st.queue))} :
        /\ seen' = st.seen
        /\ queue' = st.queue
        /\ merged' = st.merged
        /\ parsed' = parsed \o parse_aliases_from_file(fs, cur)[1]
        /\ order' = Append(order, cur)
        /\ enq' = enq \o [i \in 1..Len(added) |-> [by |-> cur, p |-> added[i]]]
  /\ UNCHANGED <<fs, rc_path, result, wpc, svars, avars, dvars, lvars>>

\* lines 126-130: the parser raises on the dequeued path, and nothing in
\* collect_aliases catches it
WalkRaise ==
  /\ wpc = "loop"
  /\ queue # <<>>
  /\ PopQueue(queue)[1] \notin seen
  /\ ParseRaises(fs, PopQueue(queue)[1])
  /\ seen' = seen \cup {PopQueue(queue)[1]}
  /\ queue' = PopQueue(queue)[2]
  /\ order' = Append(order, PopQueue(queue)[1])
  /\ wpc' = "raised"
  /\ UNCHANGED <<fs, rc_path, merged, result, parsed, enq, svars, avars, dvars, lvars>>

\* line 143
WalkReturn ==
  /\ wpc = "loop"
  /\ queue = <<>>
  /\ result' = SortByName(merged)
  /\ wpc' = "done"
  /\ UNCHANGED <<fs, rc_path, seen, queue, merged, parsed, order, enq, svars, avars, dvars, lvars>>

WalkNext == WalkSkip \/ WalkParse \/ WalkRaise \/ WalkReturn

vars == <<wvars, svars, avars, dvars, lvars>>

SpecWalk == WalkInit /\ [][WalkNext]_vars

\* ---------------------------------------------------------- search inputs
MaxItems == 3

Rec(n, b, t) == [name |-> n, body |-> b, note |-> t,
                 file |-> FilePath(RootFile, "canon"), line |-> 1]

SearchRecords ==
  { Rec(<<"a">>, <<"g", " ", "a">>, <<>>),
    Rec(<<"A">>, <<"b">>, <<"x">>),
    Rec(<<"b">>, <<"a">>, <<"A", "b">>),
    Rec(<<"X">>, <<"g">>, <<"b">>),
    Rec(<<"a", "b">>, <<"z">>, <<>>) }

Queries ==
  { <<>>, <<" ">>, <<"a">>, <<"A">>, <<"z">>, <<"n">>,
    <<"a", " ", "a">>, <<"a", " ", "b">>, <<"b", " ", " ", "A", " ">>,
    <<"a", "b">>, <<"g", " ", "g", " ", "b">>, <<"x", " ", "X">> }

ItemLists == UNION {[1..k -> SearchRecords] : k \in 0..MaxItems}

SearchInit ==
  /\ WalkIdle
  /\ SaveIdle
  /\ LineIdle
  /\ AppIdle
  /\ items \in ItemLists
  /\ needle \in Queries
  /\ scores = <<>>
  /\ found = <<>>
  /\ spc = "input"

\* match_score applied to every item
SearchScore ==
  /\ spc = "input"
  /\ scores' = [i \in DOMAIN items |-> match_score(items[i], needle)]
  /\ spc' = "scored"
  /\ UNCHANGED <<items, needle, found, wvars, avars, dvars, lvars>>

\* filter_aliases applied to the items
SearchFilter ==
  /\ spc = "scored"
  /\ found' = filter_aliases(items, needle)
  /\ spc' = "filtered"
  /\ UNCHANGED <<items, needle, scores, wvars, avars, dvars, lvars>>

SearchNext == SearchScore \/ SearchFilter

SpecSearch == SearchInit /\ [][SearchNext]_vars

\* ---------------------------------------- parse_aliases_from_file, by line
MaxLines == 4

\* the lines a parsed file is made of: note comments ("#Note: n", "#: b",
\* "# note:"), a blank line, another comment, an include of the directory,
\* an alias with a trailing comment and one without
ParseLineSet ==
  { [kind |-> "text", raw |-> <<"#", "N", "o", "t", "e", ":", " ", "n">>],
    [kind |-> "text", raw |-> <<"#", ":", " ", "b">>],
    [kind |-> "text", raw |-> <<"#", " ", "n", "o", "t", "e", ":">>],
    [kind |-> "text", raw |-> <<>>],
    [kind |-> "text", raw |-> <<"#", " ", "c">>],
    [kind |-> "source",
     d |-> [form |-> "path", abs |-> FALSE, kind |-> "dir", f |-> 0, sp |-> "canon"]],
    [kind |-> "alias", name |-> <<"x">>, body |-> <<"a">>, trailing |-> <<"c", " ">>],
    [kind |-> "alias", name |-> <<"y">>, body |-> <<"b">>, trailing |-> <<>>] }

LineLists == UNION {[1..k -> ParseLineSet] : k \in 0..MaxLines}

ParseInit ==
  /\ WalkIdle
  /\ SearchIdle
  /\ AppIdle
  /\ SaveIdle
  /\ plines \in LineLists
  /\ plineno = 0
  /\ prev_note_buffer = <<>>
  /\ paliases = <<>>
  /\ psources = <<>>
  /\ ppc = "loop"

\* lines 75-117: the loop body on the next line
ParseStep ==
  /\ ppc = "loop"
  /\ plineno < Len(plines)
  /\ LET st == ParseLine(plines[plineno + 1], plineno + 1,
                         [buf |-> prev_note_buffer, aliases |-> paliases,
                          sources |-> psources],
                         FilePath(RootFile, "canon"))
     IN /\ prev_note_buffer' = st.buf
        /\ paliases' = st.aliases
        /\ psources' = st.sources
  /\ plineno' = plineno + 1
  /\ UNCHANGED <<plines, ppc, wvars, svars, avars, dvars>>

\* line 119
ParseReturn ==
  /\ ppc = "loop"
  /\ plineno = Len(plines)
  /\ ppc' = "done"
  /\ UNCHANGED <<plines, plineno, prev_note_buffer, paliases, psources,
                 wvars, svars, avars, dvars>>

ParseNext == ParseStep \/ ParseReturn

SpecParse == ParseInit /\ [][ParseNext]_vars

\* ------------------------------------------------------ save_notes, stepwise
\* the store files a session or a save may start with
StoreFiles ==
  { AbsentFile, GarbageFile,
    [kind |-> "json", shape |-> "object",
     members |-> { [name |-> <<"x">>, note |-> <<"b">>],
                   [name |-> <<"z">>, note |-> <<"n">>] },
     elems |-> <<>>],
    [kind |-> "json", shape |-> "array", members |-> {}, elems |-> << <<"x">> >>],
    [kind |-> "json", shape |-> "array", members |-> {}, elems |-> <<>>] }

\* the stores handed to save_notes
SaveInputs ==
  { EmptyDict,
    [kind |-> "dict", d |-> (<<"x">> :> <<"n">>), l |-> <<>>],
    [kind |-> "dict", d |-> (<<"x">> :> <<"b">>) @@ (<<"z">> :> <<"n">>), l |-> <<>>],
    [kind |-> "dict",
     d |-> (<<"g">> :> <<"n">>) @@ (<<"x">> :> <<"b">>) @@ (<<"y">> :> <<"c">>),
     l |-> <<>>] }

Disk == [store |-> notesFile, tmp |-> tmpFile]

SaveInit ==
  /\ WalkIdle
  /\ SearchIdle
  /\ LineIdle
  /\ notesFile \in StoreFiles
  /\ tmpFile \in {AbsentFile, GarbageFile}
  /\ notes = EmptyDict /\ aliases = <<>> /\ query = <<>> /\ filtered = <<>>
  /\ cursor = 0 /\ status = "" /\ apc = "idle" /\ lastOp = "none"
  /\ lastEdit = NoEdit /\ cleared = NoEdit /\ failures = 0
  /\ saving \in SaveInputs
  /\ oldFile = notesFile
  /\ written = 0
  /\ svpc = "call"

SaveFrame ==
  UNCHANGED <<wvars, svars, lvars, notes, aliases, query, filtered, cursor, status, apc,
              lastOp, lastEdit, cleared, failures, saving, oldFile>>

\* line 50: write_text opens the temporary file, which empties it
SaveOpen ==
  /\ svpc = "call"
  /\ LET disk == WriteText(Disk, TmpPath, PartialText(json_dumps(saving), 0))
     IN notesFile' = disk.store /\ tmpFile' = disk.tmp
  /\ svpc' = "writing"
  /\ UNCHANGED written
  /\ SaveFrame

\* line 50: one more piece of the text reaches the file
SaveWrite ==
  /\ svpc = "writing"
  /\ written < ChunkCount(json_dumps(saving))
  /\ LET disk == WriteText(Disk, TmpPath, PartialText(json_dumps(saving), written + 1))
     IN notesFile' = disk.store /\ tmpFile' = disk.tmp
  /\ written' = written + 1
  /\ UNCHANGED svpc
  /\ SaveFrame

\* line 50: the end of the text is written and the file closed
SaveClose ==
  /\ svpc = "writing"
  /\ written = ChunkCount(json_dumps(saving))
  /\ LET disk == WriteText(Disk, TmpPath, json_dumps(saving))
     IN notesFile' = disk.store /\ tmpFile' = disk.tmp
  /\ svpc' = "written"
  /\ UNCHANGED written
  /\ SaveFrame

\* line 51
SaveReplace ==
  /\ svpc = "written"
  /\ LET disk == ReplaceFile(Disk, TmpPath, NOTES_PATH)
     IN notesFile' = disk.store /\ tmpFile' = disk.tmp
  /\ svpc' = "done"
  /\ UNCHANGED written
  /\ SaveFrame

\* the open, a write or the rename raises OSError
SaveRaise ==
  /\ svpc \in {"call", "writing", "written"}
  /\ svpc' = "raised"
  /\ UNCHANGED <<notesFile, tmpFile, written>>
  /\ SaveFrame

\* the process ends between two steps
SaveKill ==
  /\ svpc \in {"call", "writing", "written"}
  /\ svpc' = "killed"
  /\ UNCHANGED <<notesFile, tmpFile, written>>
  /\ SaveFrame

SaveNext == SaveOpen \/ SaveWrite \/ SaveClose \/ SaveReplace \/ SaveRaise \/ SaveKill

SpecSave == SaveInit /\ [][SaveNext]_vars

\* ----------------------------------------------------------------- session
FirstDirFile == CHOOSE f \in DirFiles : \A g \in DirFiles : f <= g

\* the include graphs of the sessions: the root alone, or with one include
AppGraphs ==
  {GraphOf(l) : l \in {m \in IncludeLists :
     /\ Len(m) <= 1
     /\ \A i \in DOMAIN m :
          /\ m[i][1] = RootFile
          /\ m[i][2].form = "path" /\ ~m[i][2].abs /\ m[i][2].kind = "file"
          /\ m[i][2].f = FirstDirFile}}

\* what the root path given to main may name: the file, a directory, nothing
RootPaths == {FilePath(RootFile, "canon"), DirPath("canon"), MissingPath("canon")}

AppQueries == { <<>>, <<"n">>, <<"z", "z">> }
EditTexts == { <<" ">>, <<" ", "n", " ">> }

Init ==
  /\ SearchIdle
  /\ SaveIdle
  /\ LineIdle
  /\ fs \in AppGraphs
  /\ rc_path \in RootPaths
  /\ seen = {} /\ queue = <<>> /\ merged = <<>> /\ result = <<>>
  /\ wpc = "idle"
  /\ parsed = <<>> /\ order = <<>> /\ enq = <<>>
  /\ notesFile \in StoreFiles
  /\ tmpFile = AbsentFile
  /\ notes = EmptyDict /\ aliases = <<>> /\ query = <<>> /\ filtered = <<>>
  /\ cursor = 0 /\ status = ""
  /\ apc = "start"
  /\ lastOp = "none"
  /\ lastEdit = NoEdit /\ cleared = NoEdit /\ failures = 0

history == <<lastEdit, cleared, failures>>

\* AppState.__init__ (called by Main; an exception ends the process)
Construct ==
  /\ apc = "start"
  /\ LET n == load_notes(notesFile)
         raw == collect_aliases(fs, rc_path)
     IN /\ notes' = n
        /\ IF OverlayRaises(raw, n)
           THEN /\ aliases' = raw
                /\ apc' = "crashed"
                /\ lastOp' = "raised"
                /\ UNCHANGED <<query, filtered, cursor, status>>
           ELSE /\ aliases' = Overlay(raw, n)
                /\ query' = <<>>
                /\ filtered' = filter_aliases(Overlay(raw, n), <<>>)
                /\ cursor' = 0
                /\ status' = "Ready"
                /\ apc' = "running"
                /\ lastOp' = "construct"
  /\ UNCHANGED <<wvars, svars, lvars, dvars, tmpFile, notesFile, history>>

\* main, lines 451-458: the root path is checked with exists() alone, then
\* the session state is built
Main ==
  /\ apc = "start"
  /\ IF ~Exists(rc_path)
     THEN /\ apc' = "exit1"
          /\ UNCHANGED <<wvars, svars, lvars, dvars, tmpFile, notesFile, history, notes, aliases,
                         query, filtered, cursor, status, lastOp>>
     ELSE Construct

\* a reload that does not apply the filter again
ReloadKeepsFiltered(sf, op, doneStatus) ==
  LET n == load_notes(sf)
      raw == collect_aliases(fs, rc_path)
  IN /\ notes' = n
     /\ aliases' = IF OverlayRaises(raw, n) THEN raw ELSE Overlay(raw, n)
     /\ apc' = IF OverlayRaises(raw, n) THEN "crashed" ELSE "running"
     /\ lastOp' = IF OverlayRaises(raw, n) THEN "raised" ELSE op
     /\ status' = IF OverlayRaises(raw, n) THEN status ELSE doneStatus
     /\ UNCHANGED <<query, filtered, cursor>>

\* AppState.reload reading the store file sf; op names the caller.  An
\* exception in the overlay loop leaves notes and aliases assigned and ends
\* the process.
Reload(sf, op, doneStatus) ==
  \E n \in {load_notes(sf)}, raw \in {collect_aliases(fs, rc_path)} :
     /\ notes' = n
     /\ IF OverlayRaises(raw, n)
        THEN /\ aliases' = raw
             /\ apc' = "crashed"
             /\ lastOp' = "raised"
             /\ UNCHANGED <<query, filtered, cursor, status>>
        ELSE \E af \in {apply_filter(Overlay(raw, n), query)} :
             /\ aliases' = Overlay(raw, n)
             /\ query' = af.query
             /\ filtered' = af.filtered
             /\ cursor' = af.cursor
             /\ status' = doneStatus
             /\ apc' = "running"
             /\ lastOp' = op

KeyDown ==
  /\ apc = "running"
  /\ cursor' = IF cursor < Len(filtered) - 1 THEN cursor + 1 ELSE cursor
  /\ lastOp' = "other"
  /\ UNCHANGED <<wvars, svars, lvars, dvars, tmpFile, notesFile, history, notes, aliases, query, filtered, status, apc>>

KeyUp ==
  /\ apc = "running"
  /\ cursor' = IF cursor > 0 THEN cursor - 1 ELSE cursor
  /\ lastOp' = "other"
  /\ UNCHANGED <<wvars, svars, lvars, dvars, tmpFile, notesFile, history, notes, aliases, query, filtered, status, apc>>

KeyPageUp ==
  /\ apc = "running"
  /\ cursor' = page_up(cursor)
  /\ lastOp' = "other"
  /\ UNCHANGED <<wvars, svars, lvars, dvars, tmpFile, notesFile, history, notes, aliases, query, filtered, status, apc>>

KeyPageDown ==
  /\ apc = "running"
  /\ cursor' = page_down(cursor, Len(filtered))
  /\ lastOp' = "other"
  /\ UNCHANGED <<wvars, svars, lvars, dvars, tmpFile, notesFile, history, notes, aliases, query, filtered, status, apc>>

\* '/': the prompt returns q
KeyFilter ==
  /\ apc = "running"
  /\ \E q \in AppQueries :
       \E af \in {apply_filter(aliases, q)} :
          /\ query' = af.query
          /\ filtered' = af.filtered
          /\ cursor' = af.cursor
          /\ status' = af.status
  /\ lastOp' = "filter"
  /\ UNCHANGED <<wvars, svars, lvars, dvars, tmpFile, notesFile, history, notes, aliases, apc>>

KeyEscape ==
  /\ apc = "running"
  /\ \E af \in {apply_filter(aliases, <<>>)} :
        /\ query' = af.query
        /\ filtered' = af.filtered
        /\ cursor' = af.cursor
        /\ status' = af.status
  /\ lastOp' = "filter"
  /\ UNCHANGED <<wvars, svars, lvars, dvars, tmpFile, notesFile, history, notes, aliases, apc>>

KeyReload ==
  /\ apc = "running"
  /\ Reload(notesFile, "reload", "Reloaded")
  /\ UNCHANGED <<wvars, svars, lvars, dvars, tmpFile, notesFile, history>>

\* 'e' with nothing selected
KeyEditNoSelection ==
  /\ apc = "running"
  /\ current(filtered, cursor) = <<>>
  /\ status' = "No selection"
  /\ lastOp' = "other"
  /\ UNCHANGED <<wvars, svars, lvars, dvars, tmpFile, notesFile, history, notes, aliases, query, filtered, cursor, apc>>

\* 'e', dialog cancelled, and the filter applied again
KeyEditCancelRefilters ==
  /\ apc = "running"
  /\ current(filtered, cursor) # <<>>
  /\ cursor' = apply_filter(aliases, query).cursor
  /\ status' = "Edit cancelled"
  /\ lastOp' = "cancel"
  /\ UNCHANGED <<wvars, svars, lvars, dvars, tmpFile, notesFile, history, notes, aliases, query,
                 filtered, apc>>

\* 'e', dialog cancelled
KeyEditCancel ==
  /\ apc = "running"
  /\ current(filtered, cursor) # <<>>
  /\ status' = "Edit cancelled"
  /\ lastOp' = "cancel"
  /\ UNCHANGED <<wvars, svars, lvars, dvars, tmpFile, notesFile, history, notes, aliases, query, filtered, cursor, apc>>

\* 'e', dialog answered, the store written and the session reloaded
KeyEditSave ==
  /\ apc = "running"
  /\ current(filtered, cursor) # <<>>
  /\ notes.kind = "dict"
  /\ \E new_note \in EditTexts :
       LET name == current(filtered, cursor)[1].name
           n1 == EditNotes(notes, name, new_note)
           disk == save_notes(n1, [store |-> notesFile, tmp |-> tmpFile])
       IN /\ notesFile' = disk.store
          /\ tmpFile' = disk.tmp
          /\ Reload(disk.store, "reload", "Note saved")
          /\ lastEdit' = [done |-> TRUE, name |-> name, text |-> new_note]
          /\ cleared' = IF /\ Strip(new_note) = <<>>
                           /\ lastEdit.done /\ lastEdit.name = name
                           /\ Strip(lastEdit.text) # <<>>
                        THEN lastEdit ELSE NoEdit
  /\ UNCHANGED failures
  /\ UNCHANGED <<wvars, svars, lvars, dvars>>

\* 'e', dialog answered, and the handler raises: TypeError when the store in
\* memory is not a dict, or OSError from save_notes while writing the
\* temporary file or while renaming it.  The handler is a coroutine; its
\* exception ends the handler, not the session.
KeyEditRaise ==
  /\ apc = "running"
  /\ failures < MaxFailures
  /\ current(filtered, cursor) # <<>>
  /\ \E new_note \in EditTexts :
       LET name == current(filtered, cursor)[1].name
       IN IF notes.kind # "dict"
          THEN UNCHANGED <<notes, notesFile, tmpFile>>
          ELSE /\ notes' = EditNotes(notes, name, new_note)
               /\ \E disk \in FailedSaves([store |-> notesFile, tmp |-> tmpFile]) :
                    notesFile' = disk.store /\ tmpFile' = disk.tmp
  /\ lastOp' = "failed"
  /\ failures' = failures + 1
  /\ UNCHANGED <<wvars, svars, lvars, dvars, lastEdit, cleared, aliases, query, filtered, cursor,
                 status, apc>>

\* Enter with nothing selected, or the dialog cancelled
KeyRunNone ==
  /\ apc = "running"
  /\ status' = IF current(filtered, cursor) = <<>> THEN "No selection" ELSE "Run cancelled"
  /\ lastOp' = "other"
  /\ UNCHANGED <<wvars, svars, lvars, dvars, tmpFile, notesFile, history, notes, aliases, query, filtered, cursor, apc>>

\* Enter, the alias run, and main reloading the session (lines 467-484)
KeyRunBack ==
  /\ apc = "running"
  /\ current(filtered, cursor) # <<>>
  /\ Reload(notesFile, "reload", "Reloaded")
  /\ UNCHANGED <<wvars, svars, lvars, dvars, tmpFile, notesFile, history>>

\* 'q', or 'q' at the prompt after a run: main returns and the session
\* state is gone with the process; the two files stay
Quit ==
  /\ apc = "running"
  /\ apc' = "quit"
  /\ notes' = EmptyDict /\ aliases' = <<>> /\ query' = <<>> /\ filtered' = <<>>
  /\ cursor' = 0 /\ status' = ""
  /\ lastOp' = "other"
  /\ UNCHANGED <<wvars, svars, lvars, dvars, tmpFile, notesFile, history>>

Next ==
  \/ Main
  \/ KeyDown \/ KeyUp \/ KeyPageUp \/ KeyPageDown
  \/ KeyFilter \/ KeyEscape \/ KeyReload
  \/ KeyEditNoSelection \/ KeyEditCancel \/ KeyEditSave \/ KeyEditRaise
  \/ KeyRunNone \/ KeyRunBack
  \/ Quit

Spec == Init /\ [][Next]_vars

\* ------------------------------------------------ traversal properties
SameFile(p, q) == p.kind = q.kind /\ p.f = q.f

\* the include graph without the directives that name the root file
IsRootInclude(d) == d.form = "path" /\ d.kind = "file" /\ d.f = RootFile
Acyclic(g) == [f \in Files |-> SelectSeq(g[f], LAMBDA d : ~IsRootInclude(d))]
HasRootInclude(g) == \E f \in Files : \E i \in DOMAIN g[f] : IsRootInclude(g[f][i])

\* C1 (as claimed): when the traversal has returned, the records are those
\* of the same include graph with every include of the root file removed.
C1_CycleSameAsAcyclic ==
  wpc = "done" => result = collect_aliases(Acyclic(fs), rc_path)

\* C2 (as claimed): no file is handed to the parser twice in one run,
\* whatever the spelling of the paths that reach it.
C2_ParsedAtMostOnce ==
  \A i, j \in DOMAIN order : i # j => ~SameFile(order[i], order[j])

\* C3: after the return, the records are exactly, for every name parsed,
\* the last record of that name in the parse-ordered history, whole.
IsLastOfName(i) == \A j \in DOMAIN parsed : j > i => parsed[j].name # parsed[i].name
C3_LastRecordWins ==
  wpc = "done" =>
    /\ Range(result) = {parsed[i] : i \in {k \in DOMAIN parsed : IsLastOfName(k)}}
    /\ \A i, j \in DOMAIN result : i # j => result[i].name # result[j].name

C3_Witness ==
  /\ wpc = "done"
  /\ \E i, j \in DOMAIN parsed :
       /\ i < j /\ IsLastOfName(j)
       /\ parsed[i].name = parsed[j].name
       /\ parsed[i].note # <<>> /\ parsed[j].note = <<>>
       /\ parsed[i].body # parsed[j].body
       /\ ~SameFile(parsed[i].file, parsed[j].file)

RECURSIVE Dedup(_, _)
Dedup(q, acc) ==
  IF q = <<>> THEN <<>>
  ELSE IF Head(q) \in acc THEN Dedup(Tail(q), acc)
  ELSE <<Head(q)>> \o Dedup(Tail(q), acc \cup {Head(q)})

EnqPaths == [i \in DOMAIN enq |-> enq[i].p]

\* the targets of a list of directives written in the file at base, in
\* written order, directories replaced by their shell files
RECURSIVE WrittenTargets(_, _)
WrittenTargets(ds, base) ==
  IF ds = <<>> THEN <<>>
  ELSE ExpandSources(IncludeTargets(Head(ds), base)) \o WrittenTargets(Tail(ds), base)

RootIncluded == {p.f : p \in Range(WrittenTargets(fs[RootFile], rc_path))}

\* the include directives of the file at path p
DirectivesAt(g, p) == IF p.kind = "file" THEN g[p.f] ELSE <<>>

\* C4: while no exception has ended the traversal, the queue is first-in first-out (what waits is the tail of what was
\* enqueued, and the parse order is the enqueue order without repeats), a
\* file's targets are enqueued in the written order of its directives, and
\* no file outside the root's own includes is parsed before all of them.
C4_FifoOrder ==
  wpc # "raised" =>
    /\ Len(queue) <= Len(enq)
    /\ queue = SubSeq(EnqPaths, Len(enq) - Len(queue) + 1, Len(enq))
    /\ order = Dedup(SubSeq(EnqPaths, 1, Len(enq) - Len(queue)), {})
    /\ \A k \in DOMAIN order :
         LET by == SelectSeq(enq, LAMBDA e : e.by = order[k])
         IN [i \in DOMAIN by |-> by[i].p] = WrittenTargets(DirectivesAt(fs, order[k]), order[k])
    /\ \A j \in DOMAIN order :
         order[j].f \notin RootIncluded \cup {RootFile} =>
           \A f \in RootIncluded : \E i \in 1..(j - 1) : order[i].f = f

\* a file reached only through an include of the root was put on the queue
\* while another include of the root was still waiting, and was parsed after it
C4_Witness ==
  /\ wpc = "done"
  /\ \E h, i, j \in DOMAIN order :
       /\ h < i /\ i < j
       /\ order[h].f \in RootIncluded
       /\ order[i].f \in RootIncluded
       /\ order[j].f \notin RootIncluded \cup {RootFile}
       /\ \E a \in DOMAIN enq : enq[a].by = order[h] /\ enq[a].p = order[j]

\* ---------------------------------------------------- search properties
IsBlank(q) == Strip(q) = <<>>

\* the distinct query tokens found in the record's text
TokensFound(alias, q) ==
  {t \in Range(tokens(q)) : Contains(Haystack(alias), t)}

\* C5 (as claimed): for a non-blank query the score is the number of
\* distinct query tokens found in "name body note", a repeated token
\* counting once.
C5_ScoreCountsDistinctTokens ==
  spc # "idle" /\ spc # "input" /\ ~IsBlank(needle) =>
    \A i \in DOMAIN items :
      scores[i] = Cardinality(TokensFound(items[i], needle))

Count(q, r) == Cardinality({i \in DOMAIN q : q[i] = r})

\* C6: the result holds every record with a score above 0 as often as the
\* input does and no other record; for a blank query it holds every record
\* as often as the input does.
C6_FilterKeepsExactlyMatches ==
  spc = "filtered" =>
    \A r \in Range(items) \cup Range(found) :
      Count(found, r) =
        IF IsBlank(needle) \/ match_score(r, needle) > 0 THEN Count(items, r) ELSE 0

C6_Witness ==
  /\ spc = "filtered"
  /\ ~IsBlank(needle)
  /\ \E r \in Range(items) : r \notin Range(found)
  /\ \E r \in Range(items) : Count(found, r) = 2

\* C7: along the result, a record's score is higher than its successor's,
\* or equal with a lower-cased name that is not greater.
C7_SortedByScoreThenName ==
  spc = "filtered" =>
    \A i \in 1..(Len(found) - 1) :
      \/ match_score(found[i], needle) > match_score(found[i + 1], needle)
      \/ /\ match_score(found[i], needle) = match_score(found[i + 1], needle)
         /\ StrLeq(Lower(found[i].name), Lower(found[i + 1].name))

C7_Witness ==
  /\ spc = "filtered"
  /\ Len(found) = 3
  /\ match_score(found[1], needle) > match_score(found[2], needle)
  /\ match_score(found[2], needle) = match_score(found[3], needle)
  /\ StrLess(Lower(found[2].name), Lower(found[3].name))
  /\ StrLess(found[3].name, found[2].name)
  /\ items[1] = found[3]

\* --------------------------------------------------- session properties
\* C8: when apply_filter ran last (alone, or at the end of a reload: the
\* reload key, the reload after a run, the reload of a saved note edit), the
\* cursor is 0 with a non-empty result and -1 with an empty one.
C8_CursorAfterRefilter ==
  apc = "running" /\ lastOp \in {"filter", "reload"} =>
    cursor = IF filtered # <<>> THEN 0 ELSE NoSelection

C8_Witness ==
  /\ apc = "running"
  /\ lastOp = "reload"
  /\ query # <<>>
  /\ aliases # <<>>
  /\ filtered = <<>>
  /\ cursor = NoSelection

\* the note the source files give the alias called name
ParsedNote(name) == DictGet(collect_aliases(fs, rc_path), name).note
\* the note the session shows for it
DisplayedNote(name) == DictGet(aliases, name).note

\* C9: once a reload has completed after the last saved edit of N: if the
\* text was not blank, N's displayed note is the trimmed text; if it was
\* blank, N is in neither the store in memory nor the store file and N's
\* displayed note is the parsed note.
C9_NoteRoundTrip ==
  apc = "running" /\ lastOp = "reload" /\ lastEdit.done =>
    /\ HasKey(aliases, lastEdit.name)
    /\ IF Strip(lastEdit.text) # <<>>
       THEN DisplayedNote(lastEdit.name) = Strip(lastEdit.text)
       ELSE /\ ~NotesHas(notes, lastEdit.name)
            /\ ~NotesHas(load_notes(notesFile), lastEdit.name)
            /\ DisplayedNote(lastEdit.name) = ParsedNote(lastEdit.name)

\* a note was set, then cleared, and the parsed note is shown again
C9_Witness ==
  /\ apc = "running" /\ lastOp = "reload"
  /\ lastEdit.done /\ Strip(lastEdit.text) = <<>>
  /\ cleared.done /\ cleared.name = lastEdit.name
  /\ cleared.text # Strip(cleared.text)
  /\ ParsedNote(lastEdit.name) # <<>>
  /\ ParsedNote(lastEdit.name) # Strip(cleared.text)
  /\ DisplayedNote(lastEdit.name) = ParsedNote(lastEdit.name)

\* C10: after the construction and after every completed reload (a saved
\* note edit ends with one), a displayed record whose name is in the store
\* shows the store's note, and any other shows its parsed note.
C10_OverlayHolds ==
  apc = "running" /\ lastOp \in {"construct", "reload"} =>
    /\ {aliases[i].name : i \in DOMAIN aliases}
         = {r.name : r \in Range(collect_aliases(fs, rc_path))}
    /\ \A i \in DOMAIN aliases :
         IF NotesHas(notes, aliases[i].name)
         THEN notes.kind = "dict" /\ aliases[i].note = notes.d[aliases[i].name]
         ELSE aliases[i].note = ParsedNote(aliases[i].name)

C10_Witness ==
  /\ apc = "running" /\ lastOp = "construct"
  /\ \E i, j \in DOMAIN aliases :
       /\ NotesHas(notes, aliases[i].name)
       /\ aliases[i].note # ParsedNote(aliases[i].name)
       /\ ParsedNote(aliases[i].name) # <<>>
       /\ ~NotesHas(notes, aliases[j].name)
       /\ aliases[j].note # <<>>
  /\ \E k \in DOMAIN notes.d : ~HasKey(aliases, k)

\* C13 (as claimed): no exception leaves the traversal; a file that is
\* unreadable or undecodable contributes no record and no include (a missing
\* path or a directory is never handed to the parser by another file); and
\* at the return every path that was queued has been handed to the parser.
C13_BadFilesContributeNothing ==
  /\ wpc # "raised"
  /\ \A i \in DOMAIN parsed : parsed[i].file.kind = "file"
  /\ \A i \in DOMAIN enq : enq[i].by.kind \in {"start", "file"}
  /\ wpc = "done" => \A i \in DOMAIN enq : enq[i].p \in Range(order)

\* ------------------------------------------------------ store properties
\* C11: from the call of save_notes to its end, and after an OSError or the
\* end of the process at any step, the file at NOTES_PATH is the whole file
\* of before the call or the whole new text: the old one until the rename,
\* the new one after it.
C11_StoreFileOldOrNew ==
  svpc # "idle" =>
    /\ notesFile \in {oldFile, json_dumps(saving)}
    /\ svpc = "done" => notesFile = json_dumps(saving)
    /\ svpc = "done" => Disk = save_notes(saving, [store |-> oldFile, tmp |-> tmpFile])
    /\ svpc \in {"call", "writing", "written"} => notesFile = oldFile

\* the process ended with the temporary file cut short and the old store
\* file, a JSON object other than the new text, in place
C11_Witness ==
  /\ svpc = "killed"
  /\ tmpFile.kind = "partial"
  /\ written > 0 /\ written < ChunkCount(json_dumps(saving))
  /\ oldFile.kind = "json" /\ oldFile.shape = "object"
  /\ oldFile # json_dumps(saving)
  /\ notesFile = oldFile

\* --------------------------------------------------- note comment properties
IsNoteComment(line) == line.kind = "text" /\ IsNoteLine(Strip(line.raw))

\* the note comment and alias lines above line L
Marks(L) == {k \in 1..(L - 1) : plines[k].kind = "alias" \/ IsNoteComment(plines[k])}
LastMark(L) == CHOOSE k \in Marks(L) : \A j \in Marks(L) : j <= k

\* the note that waits above line L: the text of the nearest note comment
\* above L, unless there is none or an alias line lies between it and L
Pending(L) ==
  IF Marks(L) = {} THEN <<>>
  ELSE IF plines[LastMark(L)].kind = "alias" THEN <<>>
  ELSE NoteText(Strip(plines[LastMark(L)].raw))

\* C15: after every line, the pending note is the text of the nearest note
\* comment above with no alias line since (so it outlives blank, unrelated
\* and include lines, a later note comment replaces it, and it is empty
\* right after an alias line); and every alias record carries the note that
\* waited above its line, then " | " and its own trailing comment when both
\* are non-empty, or the one of the two that is non-empty.
C15_PendingNoteAttached ==
  ppc # "idle" =>
    /\ prev_note_buffer = Pending(plineno + 1)
    /\ \A i \in DOMAIN paliases :
         LET L == paliases[i].line
             own == Strip(plines[L].trailing)
         IN paliases[i].note =
              IF Pending(L) # <<>> /\ own # <<>>
              THEN Pending(L) \o <<" ", "|", " ">> \o own
              ELSE IF Pending(L) # <<>> THEN Pending(L) ELSE own
    /\ ppc = "done" =>
         <<paliases, psources>> =
           ParseLines(plines, 1, <<>>, <<>>, <<>>, FilePath(RootFile, "canon"))

\* a note comment, an include line, an alias that gets the note joined to
\* its own comment, and a next alias that gets nothing from the note
C15_Witness ==
  /\ ppc = "done"
  /\ Len(plines) = 4
  /\ IsNoteComment(plines[1])
  /\ plines[2].kind = "source"
  /\ plines[3].kind = "alias" /\ plines[4].kind = "alias"
  /\ Pending(3) # <<>> /\ Strip(plines[3].trailing) # <<>>
  /\ paliases[1].note = Pending(3) \o <<" ", "|", " ">> \o Strip(plines[3].trailing)
  /\ paliases[2].note = <<>>
  /\ prev_note_buffer = <<>>

\* a store file that is JSON text but not an object of name/note members
Malformed(file) == file.kind # "absent" /\ ~(file.kind = "json" /\ file.shape = "object")
IsEmptyStore(n) == n.d = <<>> /\ n.l = <<>>

\* C14 (as claimed): when the store file is absent or malformed, the
\* construction loads a store without entries and its overlay raises nothing.
C14_MalformedStoreLoadsEmpty ==
  /\ lastOp \in {"construct", "raised"}
  /\ notesFile.kind = "absent" \/ Malformed(notesFile)
  => IsEmptyStore(notes) /\ apc # "crashed"

\* C16 (as claimed): a step in which a note edit does not complete (the
\* handler raises) puts a message in the status and leaves the displayed
\* records, the store in memory and the filtered result as they were.
C16_FailedEditLeavesState ==
  [][failures' > failures =>
       /\ status' # status
       /\ notes' = notes
       /\ aliases' = aliases
       /\ filtered' = filtered]_vars

\* C17: while the session runs, the filtered result is filter_aliases of
\* the current records and the current query.
C17_FilteredIsCurrent ==
  apc = "running" => filtered = filter_aliases(aliases, query)

\* under a query, after a saved note edit of a record that the query
\* matches, with another record filtered out, and a cursor move since
C17_Witness ==
  /\ apc = "running" /\ lastOp = "other"
  /\ Strip(query) # <<>>
  /\ lastEdit.done /\ Strip(lastEdit.text) # <<>>
  /\ \E i \in DOMAIN filtered : filtered[i].name = lastEdit.name
  /\ Len(filtered) < Len(aliases)
  /\ cursor > 0

\* C18 (as claimed): while the session runs, the cursor is -1 with an empty
\* filtered result, or an index into it.
C18_CursorInRange ==
  apc = "running" =>
    \/ cursor = NoSelection /\ filtered = <<>>
    \/ 0 <= cursor /\ cursor < Len(filtered)

\* C19: while the session runs, current() is a record of the filtered
\* result, the one under the cursor, when that result is not empty, and
\* None exactly when it is empty.
C19_CurrentWhileResults ==
  apc = "running" =>
    /\ filtered # <<>> =>
         /\ current(filtered, cursor) # <<>>
         /\ \E i \in DOMAIN filtered :
              i = cursor + 1 /\ current(filtered, cursor)[1] = filtered[i]
    /\ current(filtered, cursor) = <<>> <=> filtered = <<>>

\* a page down took the cursor from the first row to the last of several
C19_Witness ==
  /\ apc = "running" /\ lastOp = "other"
  /\ Len(filtered) > 2
  /\ cursor = Len(filtered) - 1
  /\ current(filtered, cursor) = <<filtered[Len(filtered)]>>

\* C20: a step that cancels the note edit dialog changes the status and
\* leaves the store in memory, the store file, the records, the query, the
\* filtered result and the cursor as they were.
C20_CancelChangesOnlyStatus ==
  [][lastOp' = "cancel" =>
       /\ status' = "Edit cancelled"
       /\ UNCHANGED <<notes, notesFile, aliases, query, filtered, cursor>>]_vars

\* an edit of a record further down a filtered list was cancelled, with
\* notes in the store and another status before
C20_Witness ==
  /\ apc = "running" /\ lastOp = "cancel"
  /\ status = "Edit cancelled"
  /\ notesFile.kind = "json" /\ notes.kind = "dict" /\ notes.d # <<>>
  /\ Strip(query) # <<>>
  /\ cursor > 0

\* ---------------------------------------------------- startup properties
\* C12 (as claimed): once main is past its check, a root path that names no
\* regular file (nothing, or a directory) has ended the process with exit
\* code 1 and no session state built, and a regular file has not.
C12_StartupRequiresRegularFile ==
  apc # "start" =>
    IF IsFile(rc_path)
    THEN apc # "exit1"
    ELSE apc = "exit1" /\ lastOp = "none" /\ status = ""

====
